---- MODULE Spec2Model ----
(***************************************************************************)
(* Model of scripts/detect_spectral_changes.py: RamanSpectrum (detect_peaks,*)
(* _detect_shoulders, get_peak_list), match_peak and compare_spectra.      *)
(*                                                                         *)
(* Numbers.  Wavenumbers, temperatures and raw intensities are integers.   *)
(* A float that the code obtains by division is kept as an exact fraction  *)
(* [n |-> numerator, d |-> denominator], d >= 0.  numpy's float64 division *)
(* does not raise on a zero divisor: x/0 is +inf for x > 0, -inf for x < 0 *)
(* and nan for x = 0; a fraction with d = 0 stands for those three values  *)
(* (by the sign of n), and every comparison with nan is false.             *)
(*                                                                         *)
(* Smoothing.  gaussian_filter1d(sigma=1.0) convolves with the weights     *)
(* exp(-k^2/2), k = -4..4, normalised to sum 1, reflecting at the ends.    *)
(* The model keeps the weights as the integers Kernel (two decimals) and   *)
(* the smoothed trace x as integers: the code's smoothed value is x[i]     *)
(* divided by scale = KernelSum * max(intensity).  Raw intensities are     *)
(* non-negative; a trace that is zero everywhere has scale = 0 and stands  *)
(* for the code's all-nan trace (0/0), on which every comparison is false. *)
(* Sample indices are 1-based.                                             *)
(***************************************************************************)
EXTENDS Integers, Sequences, FiniteSets, TLC

\* spectra: the RamanSpectrum objects, in the caller's order
\* call:    the last call made, [op |-> name, ...its arguments]
\* outcome: "none" before the call, "returned", or the exception it raised
\* result:  what the call returned
VARIABLES spectra, call, outcome, result

vars == <<spectra, call, outcome, result>>

(***************************************************************************)
(* Fractions standing for float64 values                                   *)
(***************************************************************************)
Frac(n, d) == [n |-> n, d |-> d]

\* r > a/b, with b > 0
FracGT(r, a, b) == IF r.d = 0 THEN r.n > 0 ELSE r.n * b > a * r.d

\* r < a/b, with b > 0
FracLT(r, a, b) == IF r.d = 0 THEN r.n < 0 ELSE r.n * b < a * r.d

(***************************************************************************)
(* Bounds and input sets                                                   *)
(***************************************************************************)
MaxSpectra == 3
MaxPeaks == 3
NumSamples == 8
MaxBands == 2
MaxItems == 3
NumPoints == 8
MaxSpikes == 3

Temperatures == {100, 200}
Tolerances == {2, 5}
\* wavenumber axes (strictly increasing) and raw intensity traces, 3 samples
Axes == {<<0, 3, 6>>, <<1, 5, 11>>}
Traces == {<<10, 13, 7>>, <<10, 7, 0>>}
PeakIndexLists == {<<1, 3>>, <<2>>}
\* detect_peaks: raw intensity levels of a sample, prominence thresholds
Levels == {0, 1, 4}
Prominences == {Frac(5, 1000), Frac(1, 10)}
Distances == {0, 3}
\* the cache machine: traces with at most MaxBands nonzero samples, and the
\* parameter settings of its detect_peaks calls
SparseTraces ==
    {t \in [1..NumSamples -> Levels] :
        Cardinality({i \in 1..NumSamples : t[i] # 0}) <= MaxBands}
\* the intensity of the reference spectrum of the cache machine
ReferenceTrace == [i \in 1..NumSamples |-> IF i = 4 THEN 4 ELSE IF i = 7 THEN 1 ELSE 0]
ParameterSets ==
    {[prominence |-> Frac(5, 1000), width |-> 2, height |-> Frac(5, 1000),
      distance |-> 3, detect_shoulders |-> TRUE],
     [prominence |-> Frac(1, 10), width |-> 2, height |-> Frac(5, 1000),
      distance |-> 3, detect_shoulders |-> TRUE],
     [prominence |-> Frac(1, 10), width |-> 2, height |-> Frac(5, 1000),
      distance |-> 3, detect_shoulders |-> FALSE],
     [prominence |-> Frac(5, 1000), width |-> 2, height |-> Frac(5, 1000),
      distance |-> 0, detect_shoulders |-> TRUE],
     [prominence |-> Frac(-1, 10), width |-> 2, height |-> Frac(5, 1000),
      distance |-> 3, detect_shoulders |-> TRUE],
     [prominence |-> Frac(1, 10), width |-> 0, height |-> Frac(5, 1000),
      distance |-> 3, detect_shoulders |-> TRUE]}
\* _detect_shoulders on its own: the heights of the spikes, the least height
\* of a main peak and the widths of the main peaks
SpikeHeights == {4, 5, 6, 10, 20}
MainLevels == {5, 10}
MainWidths == {Frac(1, 1), Frac(2, 1)}
\* parse_marker_bands: the first numbers of the items
Lows == {18, 305}
\* match_peak on its own: targets and the wavenumbers of the listed peaks
Targets == {0, 3, 5}
PeakWavenumbers == {0, 3, 5, 6, 11}

(***************************************************************************)
(* Program constants                                                       *)
(***************************************************************************)
IntensityThresholdNum == 3
IntensityThresholdDen == 10
ShiftThreshold == 2
Percent == 100

Abs(x) == IF x < 0 THEN -x ELSE x

RECURSIVE NpMax(_)
NpMax(a) ==
    IF Len(a) = 1 THEN a[1]
    ELSE LET m == NpMax(Tail(a)) IN IF a[1] >= m THEN a[1] ELSE m

Zeros(n) == [i \in 1..n |-> FALSE]

(***************************************************************************)
(* scipy.ndimage.gaussian_filter1d(norm_intensity, sigma=1.0)              *)
(***************************************************************************)
Kernel == <<100, 61, 14, 1, 0>>
KernelSum == Kernel[1] + 2 * (Kernel[2] + Kernel[3] + Kernel[4] + Kernel[5])

\* mode='reflect': (d c b a | a b c d | d c b a)
Reflect(p, n) == IF p < 1 THEN 1 - p ELSE IF p > n THEN 2 * n + 1 - p ELSE p

RECURSIVE Convolve(_, _, _)
Convolve(a, i, k) ==
    IF k = 0 THEN Kernel[1] * a[i]
    ELSE Kernel[k + 1] * (a[Reflect(i - k, Len(a))] + a[Reflect(i + k, Len(a))])
             + Convolve(a, i, k - 1)

gaussian_filter1d(a) == [i \in 1..Len(a) |-> Convolve(a, i, Len(Kernel) - 1)]

(***************************************************************************)
(* scipy.signal.find_peaks(smoothed, prominence, width, height, distance)  *)
(***************************************************************************)
RECURSIVE PlateauEnd(_, _, _)
PlateauEnd(x, i, i_ahead) ==
    IF i_ahead < Len(x) /\ x[i_ahead] = x[i] THEN PlateauEnd(x, i, i_ahead + 1)
    ELSE i_ahead

\* _local_maxima_1d: the midpoints of the strict maxima and plateaus
RECURSIVE LocalMaximaFrom(_, _)
LocalMaximaFrom(x, i) ==
    IF i >= Len(x) THEN <<>>
    ELSE IF x[i - 1] < x[i] /\ x[PlateauEnd(x, i, i + 1)] < x[i]
         THEN <<(i + PlateauEnd(x, i, i + 1) - 1) \div 2>>
                  \o LocalMaximaFrom(x, PlateauEnd(x, i, i + 1) + 1)
         ELSE LocalMaximaFrom(x, i + 1)

\* peaks with x[peak] / scale >= height
SelectByHeight(x, scale, peaks, height) ==
    SelectSeq(peaks, LAMBDA p: x[p] * height.d >= height.n * scale)

\* _select_by_peak_distance: from the highest peak down (of equal ones the
\* later first), a kept peak removes its neighbours closer than distance
HighestOf(x, peaks, todo) ==
    CHOOSE a \in todo :
        \A b \in todo :
            \/ x[peaks[b]] < x[peaks[a]]
            \/ (x[peaks[b]] = x[peaks[a]] /\ b <= a)

CloserThan(peaks, j, distance) ==
    {k \in DOMAIN peaks : k # j /\ Abs(peaks[k] - peaks[j]) < distance}

RECURSIVE DistanceKeep(_, _, _, _, _)
DistanceKeep(x, peaks, distance, todo, keep) ==
    IF todo = {} THEN keep
    ELSE DistanceKeep(x, peaks, distance, todo \ {HighestOf(x, peaks, todo)},
                      IF HighestOf(x, peaks, todo) \in keep
                      THEN keep \ CloserThan(peaks, HighestOf(x, peaks, todo), distance)
                      ELSE keep)

SelectByPeakDistance(x, peaks, distance) ==
    SelectSeq(peaks,
              LAMBDA p: \E k \in DistanceKeep(x, peaks, distance,
                                              DOMAIN peaks, DOMAIN peaks) :
                            peaks[k] = p)

\* _peak_prominences: the lowest sample between the peak and the next
\* higher sample on that side (the nearest of equal ones)
RECURSIVE LeftBase(_, _, _, _)
LeftBase(x, peak, i, base) ==
    IF i >= 1 /\ x[i] <= x[peak]
    THEN LeftBase(x, peak, i - 1, IF x[i] < x[base] THEN i ELSE base)
    ELSE base

RECURSIVE RightBase(_, _, _, _)
RightBase(x, peak, i, base) ==
    IF i <= Len(x) /\ x[i] <= x[peak]
    THEN RightBase(x, peak, i + 1, IF x[i] < x[base] THEN i ELSE base)
    ELSE base

Larger(a, b) == IF a >= b THEN a ELSE b

Prominence(x, peak) ==
    x[peak] - Larger(x[LeftBase(x, peak, peak, peak)], x[RightBase(x, peak, peak, peak)])

SelectByProminence(x, scale, peaks, prominence) ==
    SelectSeq(peaks, LAMBDA p: Prominence(x, p) * prominence.d >= prominence.n * scale)

\* _peak_widths at rel_height = 0.5; h2 is twice the evaluation height
RECURSIVE LeftCross(_, _, _, _)
LeftCross(x, h2, i, i_min) ==
    IF i_min < i /\ h2 < 2 * x[i] THEN LeftCross(x, h2, i - 1, i_min) ELSE i

RECURSIVE RightCross(_, _, _, _)
RightCross(x, h2, i, i_max) ==
    IF i < i_max /\ h2 < 2 * x[i] THEN RightCross(x, h2, i + 1, i_max) ELSE i

\* the linear interpolation at a crossing i whose inner neighbour is `inner`:
\* the crossing lies CutNum / CutDen samples inwards of i
CutNum(x, h2, i) == IF 2 * x[i] < h2 THEN h2 - 2 * x[i] ELSE 0

CutDen(x, h2, i, inner) == IF 2 * x[i] < h2 THEN 2 * (x[inner] - x[i]) ELSE 1

\* right_ip - left_ip as one fraction (in samples)
WidthBetween(x, h2, li, ri) ==
    Frac((ri - li) * CutDen(x, h2, li, li + 1) * CutDen(x, h2, ri, ri - 1)
             - CutNum(x, h2, ri) * CutDen(x, h2, li, li + 1)
             - CutNum(x, h2, li) * CutDen(x, h2, ri, ri - 1),
         CutDen(x, h2, li, li + 1) * CutDen(x, h2, ri, ri - 1))

WidthAt(x, h2, peak) ==
    WidthBetween(x, h2,
                 LeftCross(x, h2, peak, LeftBase(x, peak, peak, peak)),
                 RightCross(x, h2, peak, RightBase(x, peak, peak, peak)))

PeakWidth(x, peak) == WidthAt(x, 2 * x[peak] - Prominence(x, peak), peak)

SelectByWidth(x, peaks, width) ==
    SelectSeq(peaks, LAMBDA p: PeakWidth(x, p).n >= width * PeakWidth(x, p).d)

PeakProperties(x, scale, peaks) ==
    [prominences |-> [i \in 1..Len(peaks) |-> Frac(Prominence(x, peaks[i]), scale)],
     widths |-> [i \in 1..Len(peaks) |-> PeakWidth(x, peaks[i])]]

FoundPeaks(x, scale, peaks) ==
    [outcome |-> "returned", peaks |-> peaks,
     properties |-> PeakProperties(x, scale, peaks)]

\* the conditions in scipy's order: height, distance, prominence, width;
\* a distance below 1 is refused before anything is computed
find_peaks(x, scale, prominence, width, height, distance) ==
    IF distance < 1
    THEN [outcome |-> "ValueError", peaks |-> <<>>,
          properties |-> [prominences |-> <<>>, widths |-> <<>>]]
    ELSE FoundPeaks(x, scale,
             SelectByWidth(x,
                 SelectByProminence(x, scale,
                     SelectByPeakDistance(x,
                         SelectByHeight(x, scale, LocalMaximaFrom(x, 2), height),
                         distance),
                     prominence),
                 width))

(***************************************************************************)
(* scipy.signal.argrelextrema(smoothed, np.greater, order=2), mode='clip'  *)
(***************************************************************************)
Clip(p, n) == IF p < 1 THEN 1 ELSE IF p > n THEN n ELSE p

argrelextrema(x) ==
    SelectSeq([i \in 1..Len(x) |-> i],
              LAMBDA i: \A shift \in 1..2 :
                            /\ x[i] > x[Clip(i + shift, Len(x))]
                            /\ x[i] > x[Clip(i - shift, Len(x))])

(***************************************************************************)
(* RamanSpectrum                                                           *)
(***************************************************************************)
\* __init__: no peaks yet (self.peaks = None, self.peak_properties = None)
RamanSpectrum(wavenumber, intensity, temperature) ==
    [wavenumber |-> wavenumber,
     intensity |-> intensity,
     temperature |-> temperature,
     peaks_none |-> TRUE,
     peaks |-> <<>>,
     is_shoulder |-> <<>>,
     peak_properties |-> [prominences |-> <<>>, widths |-> <<>>]]

DefaultParams ==
    [prominence |-> Frac(5, 1000), width |-> 2, height |-> Frac(5, 1000),
     distance |-> 3, detect_shoulders |-> TRUE]

\* int(width * 3)
SearchRange(width) == (width.n * 3) \div width.d

\* local_maxima[(> peak - range) & (< peak + range) & (!= peak)]
NearbyMaxima(local_maxima, peak, search_range) ==
    SelectSeq(local_maxima,
              LAMBDA m: m > peak - search_range /\ m < peak + search_range /\ m # peak)

\* mutant: a candidate of exactly 20% or 30% of the peak taken as well
IsShoulderHeightInclusive(candidate_height, peak_height) ==
    /\ 2 * peak_height <= 10 * candidate_height
    /\ 10 * candidate_height <= 3 * peak_height

\* 0.2 * peak_height < candidate_height < shoulder_ratio * peak_height
IsShoulderHeight(candidate_height, peak_height) ==
    /\ 2 * peak_height < 10 * candidate_height
    /\ 10 * candidate_height < 3 * peak_height

InSeq(v, list) == \E i \in DOMAIN list : list[i] = v

\* the inner loop from the k-th candidate near one peak on
RECURSIVE AddShoulders(_, _, _, _, _, _)
AddShoulders(x, peaks, peak, nearby_maxima, k, shoulders) ==
    IF k > Len(nearby_maxima) THEN shoulders
    ELSE AddShoulders(x, peaks, peak, nearby_maxima, k + 1,
                      IF /\ IsShoulderHeight(x[nearby_maxima[k]], x[peak])
                         /\ ~InSeq(nearby_maxima[k], peaks)
                         /\ ~InSeq(nearby_maxima[k], shoulders)
                      THEN Append(shoulders, nearby_maxima[k])
                      ELSE shoulders)

\* the outer loop from the k-th main peak on
RECURSIVE ShouldersOfPeaks(_, _, _, _, _, _)
ShouldersOfPeaks(x, peaks, widths, local_maxima, k, shoulders) ==
    IF k > Len(peaks) THEN shoulders
    ELSE ShouldersOfPeaks(x, peaks, widths, local_maxima, k + 1,
             AddShoulders(x, peaks, peaks[k],
                          NearbyMaxima(local_maxima, peaks[k], SearchRange(widths[k])),
                          1, shoulders))

_detect_shoulders(x, peaks, properties) ==
    ShouldersOfPeaks(x, peaks, properties.widths, argrelextrema(x), 1, <<>>)

\* np.argsort(all_peaks): sort_idx[i] is the place in all_peaks of the i-th
\* smallest (the values are distinct)
ArgSort(all_peaks) ==
    [i \in 1..Len(all_peaks) |->
        CHOOSE k \in DOMAIN all_peaks :
            Cardinality({m \in DOMAIN all_peaks : all_peaks[m] < all_peaks[k]}) = i - 1]

\* mutant: the merged peaks left in the order of the concatenation
SortedPeaksUnsorted(all_peaks) == all_peaks

\* all_peaks[sort_idx]
SortedPeaks(all_peaks) ==
    [i \in 1..Len(all_peaks) |-> all_peaks[ArgSort(all_peaks)[i]]]

\* np.isin(self.peaks, shoulders)
ShoulderMask(sorted_peaks, shoulders) ==
    [i \in 1..Len(sorted_peaks) |-> InSeq(sorted_peaks[i], shoulders)]

\* lines 105-114: peaks and shoulders combined and sorted by position, and
\* the flags: the mask of the sorted peaks, indexed once more by sort_idx
MergeShoulders(peaks, shoulders) ==
    [peaks |-> SortedPeaks(peaks \o shoulders),
     is_shoulder |->
         [i \in 1..(Len(peaks) + Len(shoulders)) |->
             ShoulderMask(SortedPeaks(peaks \o shoulders), shoulders)
                 [ArgSort(peaks \o shoulders)[i]]]]

\* self.peaks and self.is_shoulder as lines 98-118 leave them
PeaksAndFlags(peaks, shoulders) ==
    IF Len(shoulders) > 0
    THEN MergeShoulders(peaks, shoulders)
    ELSE [peaks |-> peaks, is_shoulder |-> Zeros(Len(peaks))]

ShouldersIfAsked(smoothed, found, params) ==
    IF params.detect_shoulders
    THEN _detect_shoulders(smoothed, found.peaks, found.properties)
    ELSE <<>>

\* mutant: the peaks found are added to the peaks already stored
DetectedPeaksAppending(s, found, merged) ==
    [outcome |-> "returned",
     spectrum |->
         [s EXCEPT !.peaks_none = FALSE,
                   !.peaks = s.peaks \o merged.peaks,
                   !.is_shoulder = s.is_shoulder \o merged.is_shoulder,
                   !.peak_properties = found.properties],
     result |->
         [peak_wavenumbers |->
              [i \in 1..Len(merged.peaks) |-> s.wavenumber[merged.peaks[i]]],
          peak_intensities |->
              [i \in 1..Len(merged.peaks) |-> s.intensity[merged.peaks[i]]]]]

\* lines 98-124 once find_peaks has returned
DetectedPeaks(s, found, merged) ==
    [outcome |-> "returned",
     spectrum |->
         [s EXCEPT !.peaks_none = FALSE,
                   !.peaks = merged.peaks,
                   !.is_shoulder = merged.is_shoulder,
                   !.peak_properties = found.properties],
     result |->
         [peak_wavenumbers |->
              [i \in 1..Len(merged.peaks) |-> s.wavenumber[merged.peaks[i]]],
          peak_intensities |->
              [i \in 1..Len(merged.peaks) |-> s.intensity[merged.peaks[i]]]]]

AfterFindPeaks(s, params, smoothed, found) ==
    IF found.outcome # "returned"
    THEN [outcome |-> found.outcome, spectrum |-> s, result |-> <<>>]
    ELSE DetectedPeaks(s, found,
             PeaksAndFlags(found.peaks, ShouldersIfAsked(smoothed, found, params)))

\* the whole method: [outcome, spectrum after the call, result]
detect_peaks(s, params) ==
    AfterFindPeaks(s, params, gaussian_filter1d(s.intensity),
                   find_peaks(gaussian_filter1d(s.intensity),
                              KernelSum * NpMax(s.intensity),
                              params.prominence, params.width, params.height,
                              params.distance))

\* tests: CompareSpectraTests._make_spectrum, a spectrum whose peaks are set
MakeSpectrumOf(wavenumbers, intensities, peaks, temperature) ==
    [wavenumber |-> wavenumbers,
     intensity |-> intensities,
     temperature |-> temperature,
     peaks_none |-> FALSE,
     peaks |-> peaks,
     is_shoulder |-> Zeros(Len(peaks)),
     peak_properties |->
         [prominences |-> [i \in 1..Len(peaks) |-> Frac(0, 1)],
          widths |-> [i \in 1..Len(peaks) |-> Frac(1, 1)]]]

\* np.sum(self.is_shoulder[:i]) for the 0-based position i = pos - 1
RECURSIVE ShouldersBefore(_, _)
ShouldersBefore(flags, pos) ==
    IF pos <= 1 THEN 0
    ELSE ShouldersBefore(flags, pos - 1) + (IF flags[pos - 1] THEN 1 ELSE 0)

\* one peak_info of get_peak_list; prominence and width are <<>> when the
\* key is absent and <<v>> when it is present
PeakInfo(s, pos) ==
    LET peak_idx == s.peaks[pos]
        shoulder == s.is_shoulder[pos]
        main_peak_idx == pos - ShouldersBefore(s.is_shoulder, pos)
        has == (~shoulder) /\ main_peak_idx <= Len(s.peak_properties.prominences)
    IN  [wavenumber |-> s.wavenumber[peak_idx],
         intensity |-> s.intensity[peak_idx],
         relative_intensity |-> Frac(s.intensity[peak_idx], NpMax(s.intensity)),
         is_shoulder |-> shoulder,
         prominence |-> IF has THEN <<s.peak_properties.prominences[main_peak_idx]>>
                        ELSE <<>>,
         width |-> IF has THEN <<s.peak_properties.widths[main_peak_idx]>>
                   ELSE <<>>]

\* mutant: detection run on every call, stored peaks or not
CachedDetectingAgain(s) == detect_peaks(s, DefaultParams).spectrum

\* if self.peaks is None: self.detect_peaks(); the spectrum as the call leaves it
Cached(s) == IF s.peaks_none THEN detect_peaks(s, DefaultParams).spectrum ELSE s

\* the loop over self.peaks
PeakInfos(s) == [pos \in 1..Len(s.peaks) |-> PeakInfo(s, pos)]

get_peak_list(s) == PeakInfos(Cached(s))

(***************************************************************************)
(* match_peak                                                              *)
(***************************************************************************)
\* mutant: the tolerance taken as exclusive
WithinToleranceStrict(wn, target_wn, tol) == Abs(wn - target_wn) < tol

\* mutant: a peak just beyond the tolerance taken as well
WithinToleranceLoose(wn, target_wn, tol) == Abs(wn - target_wn) <= tol + 1

WithinTolerance(wn, target_wn, tol) == Abs(wn - target_wn) <= tol

\* mutant: a later peak of the smallest key replaces an earlier one
RECURSIVE MinByDistanceLast(_, _)
MinByDistanceLast(matches, target_wn) ==
    IF Len(matches) = 1 THEN matches[1]
    ELSE LET rest == MinByDistanceLast(Tail(matches), target_wn)
         IN  IF Abs(matches[1].wavenumber - target_wn)
                    < Abs(rest.wavenumber - target_wn)
             THEN matches[1] ELSE rest

\* min(matches, key=...): the first element of the smallest key
RECURSIVE MinByDistance(_, _)
MinByDistance(matches, target_wn) ==
    IF Len(matches) = 1 THEN matches[1]
    ELSE LET rest == MinByDistance(Tail(matches), target_wn)
         IN  IF Abs(matches[1].wavenumber - target_wn)
                    <= Abs(rest.wavenumber - target_wn)
             THEN matches[1] ELSE rest

\* <<>> is None, <<p>> is the peak p
match_peak(target_wn, peak_list, tol) ==
    LET matches == SelectSeq(peak_list,
                       LAMBDA p: WithinTolerance(p.wavenumber, target_wn, tol))
    IN  IF matches = <<>> THEN <<>> ELSE <<MinByDistance(matches, target_wn)>>

(***************************************************************************)
(* compare_spectra                                                         *)
(***************************************************************************)
\* sorted(spectra, key=lambda s: s.temperature): a stable sort
RECURSIVE InsertByTemperature(_, _)
InsertByTemperature(sorted, s) ==
    IF sorted = <<>> THEN <<s>>
    ELSE IF sorted[Len(sorted)].temperature <= s.temperature
         THEN Append(sorted, s)
         ELSE Append(InsertByTemperature(SubSeq(sorted, 1, Len(sorted) - 1), s),
                     sorted[Len(sorted)])

RECURSIVE SortedByTemperature(_)
SortedByTemperature(list) ==
    IF list = <<>> THEN <<>>
    ELSE InsertByTemperature(
             SortedByTemperature(SubSeq(list, 1, Len(list) - 1)), list[Len(list)])

EmptyChanges ==
    [appearing |-> <<>>, disappearing |-> <<>>, growing |-> <<>>,
     diminishing |-> <<>>, shifting |-> <<>>, stable |-> <<>>]

\* mutant: every spectrum compared with the coldest one
ComparedPairsFromFirst(n) == [k \in 1..(n - 1) |-> <<1, k + 1>>]

\* for spectrum_idx in range(1, len(spectra)): the (prev, curr) positions
ComparedPairs(n) == [k \in 1..(n - 1) |-> <<k, k + 1>>]

AppearingRecord(curr_peak, prev_spectrum, curr_spectrum) ==
    [wavenumber |-> curr_peak.wavenumber,
     temperature |-> curr_spectrum.temperature,
     intensity |-> curr_peak.relative_intensity,
     from_temp |-> prev_spectrum.temperature,
     to_temp |-> curr_spectrum.temperature,
     is_shoulder |-> curr_peak.is_shoulder]

\* mutant: from_temp taken from the spectrum the peak is missing in
DisappearingRecordFromCurr(prev_peak, prev_spectrum, curr_spectrum) ==
    [wavenumber |-> prev_peak.wavenumber,
     temperature |-> curr_spectrum.temperature,
     last_seen |-> prev_spectrum.temperature,
     from_temp |-> curr_spectrum.temperature,
     to_temp |-> curr_spectrum.temperature,
     is_shoulder |-> prev_peak.is_shoulder]

DisappearingRecord(prev_peak, prev_spectrum, curr_spectrum) ==
    [wavenumber |-> prev_peak.wavenumber,
     temperature |-> curr_spectrum.temperature,
     last_seen |-> prev_spectrum.temperature,
     from_temp |-> prev_spectrum.temperature,
     to_temp |-> curr_spectrum.temperature,
     is_shoulder |-> prev_peak.is_shoulder]

\* (match.rel - prev.rel) / prev.rel as one fraction; a zero prev.rel gives
\* d = 0, that is +inf or nan
IntensityChange(prev_peak, match) ==
    Frac(match.relative_intensity.n * prev_peak.relative_intensity.d
             - prev_peak.relative_intensity.n * match.relative_intensity.d,
         match.relative_intensity.d * prev_peak.relative_intensity.n)

\* mutant: a change of exactly the threshold counted as growth
IsGrowingInclusive(intensity_change) ==
    ~FracLT(intensity_change, IntensityThresholdNum, IntensityThresholdDen)
    /\ (intensity_change.d # 0 \/ intensity_change.n # 0)

IsGrowing(intensity_change) ==
    FracGT(intensity_change, IntensityThresholdNum, IntensityThresholdDen)

IsDiminishing(intensity_change) ==
    (~IsGrowing(intensity_change))
    /\ FracLT(intensity_change, -IntensityThresholdNum, IntensityThresholdDen)

IntensityRecord(prev_peak, match, prev_spectrum, curr_spectrum) ==
    LET intensity_change == IntensityChange(prev_peak, match)
    IN  [wavenumber |-> prev_peak.wavenumber,
         from_temp |-> prev_spectrum.temperature,
         to_temp |-> curr_spectrum.temperature,
         change_percent |-> Frac(intensity_change.n * Percent, intensity_change.d),
         prev_intensity |-> prev_peak.relative_intensity,
         curr_intensity |-> match.relative_intensity,
         is_shoulder |-> prev_peak.is_shoulder]

\* mutant: a shift of exactly the threshold reported
IsShiftingInclusive(position_shift) == Abs(position_shift) >= ShiftThreshold

IsShifting(position_shift) == Abs(position_shift) > ShiftThreshold

ShiftingRecord(prev_peak, match, prev_spectrum, curr_spectrum) ==
    [from_wavenumber |-> prev_peak.wavenumber,
     to_wavenumber |-> match.wavenumber,
     shift |-> match.wavenumber - prev_peak.wavenumber,
     from_temp |-> prev_spectrum.temperature,
     to_temp |-> curr_spectrum.temperature]

\* one pass of the loop body: the records of the pair (prev, curr)
ComparePeaks(prev_peaks, curr_peaks, prev_spectrum, curr_spectrum, tol) ==
    LET Match(p) == match_peak(p.wavenumber, curr_peaks, tol)
        new == SelectSeq(curr_peaks,
                   LAMBDA c: match_peak(c.wavenumber, prev_peaks, tol) = <<>>)
        gone == SelectSeq(prev_peaks, LAMBDA p: Match(p) = <<>>)
        grown == SelectSeq(prev_peaks,
                     LAMBDA p: Match(p) # <<>>
                               /\ IsGrowing(IntensityChange(p, Match(p)[1])))
        shrunk == SelectSeq(prev_peaks,
                      LAMBDA p: Match(p) # <<>>
                                /\ IsDiminishing(IntensityChange(p, Match(p)[1])))
        moved == SelectSeq(prev_peaks,
                     LAMBDA p: Match(p) # <<>>
                               /\ IsShifting(Match(p)[1].wavenumber - p.wavenumber))
    IN  [appearing |->
             [i \in 1..Len(new) |->
                 AppearingRecord(new[i], prev_spectrum, curr_spectrum)],
         disappearing |->
             [i \in 1..Len(gone) |->
                 DisappearingRecord(gone[i], prev_spectrum, curr_spectrum)],
         growing |->
             [i \in 1..Len(grown) |->
                 IntensityRecord(grown[i], Match(grown[i])[1],
                                 prev_spectrum, curr_spectrum)],
         diminishing |->
             [i \in 1..Len(shrunk) |->
                 IntensityRecord(shrunk[i], Match(shrunk[i])[1],
                                 prev_spectrum, curr_spectrum)],
         shifting |->
             [i \in 1..Len(moved) |->
                 ShiftingRecord(moved[i], Match(moved[i])[1],
                                prev_spectrum, curr_spectrum)],
         stable |-> <<>>]

\* prev_peaks = prev_spectrum.get_peak_list(), curr_peaks likewise
ComparePair(prev_spectrum, curr_spectrum, tol) ==
    ComparePeaks(get_peak_list(prev_spectrum), get_peak_list(curr_spectrum),
                 prev_spectrum, curr_spectrum, tol)

Extend(acc, more) ==
    [appearing |-> acc.appearing \o more.appearing,
     disappearing |-> acc.disappearing \o more.disappearing,
     growing |-> acc.growing \o more.growing,
     diminishing |-> acc.diminishing \o more.diminishing,
     shifting |-> acc.shifting \o more.shifting,
     stable |-> acc.stable \o more.stable]

\* the loop over the compared pairs, the first `count` of them done
RECURSIVE CompareLoop(_, _, _, _)
CompareLoop(sorted, pairs, count, tol) ==
    IF count = 0 THEN EmptyChanges
    ELSE Extend(CompareLoop(sorted, pairs, count - 1, tol),
                ComparePair(sorted[pairs[count][1]], sorted[pairs[count][2]], tol))

\* the whole call: spectra[0] of an empty list raises IndexError
compare_spectra(list, tol) ==
    LET sorted == SortedByTemperature(list)
        pairs == ComparedPairs(Len(sorted))
    IN  IF Len(sorted) = 0
        THEN [outcome |-> "IndexError", changes |-> EmptyChanges]
        ELSE [outcome |-> "returned",
              changes |-> CompareLoop(sorted, pairs, Len(pairs), tol)]

(***************************************************************************)
(* The comparison machine: spectra with detected peaks are collected in    *)
(* the caller's order, then compare_spectra runs once on the collection.   *)
(***************************************************************************)
NoCall == [op |-> "none"]

Init ==
    /\ spectra = <<>>
    /\ call = NoCall
    /\ outcome = "none"
    /\ result = <<>>

AddSpectrum ==
    /\ call = NoCall
    /\ Len(spectra) < MaxSpectra
    /\ \E w \in Axes, a \in Traces, p \in PeakIndexLists, t \in Temperatures :
           spectra' = Append(spectra, MakeSpectrumOf(w, a, p, t))
    /\ UNCHANGED <<call, outcome, result>>

CompareSpectra ==
    /\ call = NoCall
    /\ \E tol \in Tolerances :
           LET r == compare_spectra(spectra, tol)
           IN  /\ call' = [op |-> "compare_spectra", tolerance |-> tol]
               /\ outcome' = r.outcome
               /\ result' = r.changes
    /\ spectra' = [i \in DOMAIN spectra |-> Cached(spectra[i])]

Next == AddSpectrum \/ CompareSpectra

Spec == Init /\ [][Next]_vars

(***************************************************************************)
(* The detection machine: one spectrum is loaded, then detect_peaks runs   *)
(* on it once.                                                             *)
(***************************************************************************)
LoadSpectrum ==
    /\ call = NoCall
    /\ spectra = <<>>
    /\ \E intensity \in [1..NumSamples -> Levels] :
           spectra' = <<RamanSpectrum([i \in 1..NumSamples |-> 100 + 2 * i],
                                      intensity, 100)>>
    /\ UNCHANGED <<call, outcome, result>>

DetectPeaks ==
    /\ call = NoCall
    /\ Len(spectra) = 1
    /\ \E prominence \in Prominences, distance \in Distances,
          with_shoulders \in BOOLEAN :
           LET params == [DefaultParams EXCEPT !.prominence = prominence,
                                               !.distance = distance,
                                               !.detect_shoulders = with_shoulders]
               r == detect_peaks(spectra[1], params)
           IN  /\ call' = [op |-> "detect_peaks", params |-> params]
               /\ outcome' = r.outcome
               /\ result' = r.result
               /\ spectra' = <<r.spectrum>>

NextDetect == LoadSpectrum \/ DetectPeaks

SpecDetect == Init /\ [][NextDetect]_vars

(***************************************************************************)
(* The cache machine: a spectrum is loaded next to a reference spectrum    *)
(* of a higher temperature, then detect_peaks and get_peak_list are called *)
(* on it and compare_spectra on the two, any number of times, in any       *)
(* order.  call.again tells that a detect_peaks call repeats the call      *)
(* before it, parameters included, and call.before holds the peaks that    *)
(* were stored when it was made, if any were.                              *)
(***************************************************************************)
LoadSparse ==
    /\ spectra = <<>>
    /\ \E intensity \in SparseTraces :
           spectra' = <<RamanSpectrum([i \in 1..NumSamples |-> 100 + 2 * i],
                                      intensity, 100),
                        RamanSpectrum([i \in 1..NumSamples |-> 100 + 2 * i],
                                      ReferenceTrace, 200)>>
    /\ UNCHANGED <<call, outcome, result>>

\* r is what detect_peaks gives the call
DetectPeaksCall(params, r) ==
    /\ call' = [op |-> "detect_peaks", params |-> params,
                again |-> (call.op = "detect_peaks" /\ call.params = params),
                before |-> IF spectra[1].peaks_none THEN <<>>
                           ELSE <<spectra[1].peaks>>]
    /\ outcome' = r.outcome
    /\ result' = r.result
    /\ spectra' = [spectra EXCEPT ![1] = r.spectrum]

CallDetectPeaks ==
    /\ spectra # <<>>
    /\ \E params \in ParameterSets :
           DetectPeaksCall(params, detect_peaks(spectra[1], params))

\* c is the spectrum as get_peak_list leaves it
GetPeakListCall(c) ==
    /\ call' = [op |-> "get_peak_list"]
    /\ outcome' = "returned"
    /\ result' = PeakInfos(c)
    /\ spectra' = [spectra EXCEPT ![1] = c]

CallGetPeakList ==
    /\ spectra # <<>>
    /\ GetPeakListCall(Cached(spectra[1]))

\* cached are the spectra as their get_peak_list calls leave them, r is
\* what compare_spectra gives on them
CompareSpectraCall(tol, cached, r) ==
    /\ call' = [op |-> "compare_spectra", tolerance |-> tol]
    /\ outcome' = r.outcome
    /\ result' = r.changes
    /\ spectra' = cached

CallCompareSpectra ==
    /\ spectra # <<>>
    /\ \E tol \in Tolerances :
           CompareSpectraCall(tol, [i \in DOMAIN spectra |-> Cached(spectra[i])],
                              compare_spectra(spectra, tol))

NextCache == LoadSparse \/ CallDetectPeaks \/ CallGetPeakList \/ CallCompareSpectra

SpecCache == Init /\ [][NextCache]_vars

(***************************************************************************)
(* parse_marker_bands.  A string is a sequence of characters; "EN" is the  *)
(* en dash and "NL" the newline.                                           *)
(***************************************************************************)
DigitChars == <<"0", "1", "2", "3", "4", "5", "6", "7", "8", "9">>
Digits == {DigitChars[i] : i \in DOMAIN DigitChars}
Letters ==
    {"a", "b", "c", "d", "e", "f", "g", "h", "i", "j", "k", "l", "m", "n", "o",
     "p", "q", "r", "s", "t", "u", "v", "w", "x", "y", "z", "A", "D", "E"}
\* \w, \s, the dashes of [–\-] and the class [\d,\s\(\)\–\-\w\.]
WordChars == Digits \cup Letters \cup {"_"}
SpaceChars == {" ", "NL"}
Dashes == {"EN", "-"}
BandChars == Digits \cup SpaceChars \cup WordChars \cup Dashes \cup {",", "(", ")", "."}
Alphabet == BandChars \cup {":", "[", "]"}

\* the first index from i on whose character is not in chars: the end of a
\* greedy run X+ or X*
RECURSIVE RunEnd(_, _, _)
RunEnd(text, i, chars) ==
    IF i <= Len(text) /\ text[i] \in chars THEN RunEnd(text, i + 1, chars) ELSE i

IsAt(text, i, c) == i <= Len(text) /\ text[i] = c

NoMatch == [found |-> FALSE]

\* (\w+):\s*\[([\d,\s\(\)\–\-\w\.]+)\] tried at i: the word ends before w,
\* the bracket opens at s and closes at b
PhaseFromBands(text, i, w, s, b) ==
    IF b > s + 1 /\ IsAt(text, b, "]")
    THEN [found |-> TRUE, phase |-> SubSeq(text, i, w - 1),
          bands_str |-> SubSeq(text, s + 1, b - 1), end |-> b]
    ELSE NoMatch

PhaseFromSpace(text, i, w, s) ==
    IF IsAt(text, s, "[")
    THEN PhaseFromBands(text, i, w, s, RunEnd(text, s + 1, BandChars))
    ELSE NoMatch

PhaseFromWord(text, i, w) ==
    IF w > i /\ IsAt(text, w, ":")
    THEN PhaseFromSpace(text, i, w, RunEnd(text, w + 1, SpaceChars))
    ELSE NoMatch

PhaseAt(text, i) == PhaseFromWord(text, i, RunEnd(text, i, WordChars))

\* re.findall(phase_pattern, marker_string): the leftmost matches, each
\* search starting behind the match before
RECURSIVE FindAllPhases(_, _)
FindAllPhases(text, i) ==
    IF i > Len(text) THEN <<>>
    ELSE IF PhaseAt(text, i).found
         THEN <<PhaseAt(text, i)>> \o FindAllPhases(text, PhaseAt(text, i).end + 1)
         ELSE FindAllPhases(text, i + 1)

\* re.sub(r'\([^)]+\)', '', bands_str)
RECURSIVE RemoveAnnotations(_, _)
RemoveAnnotations(text, i) ==
    IF i > Len(text) THEN <<>>
    ELSE IF /\ text[i] = "("
            /\ RunEnd(text, i + 1, Alphabet \ {")"}) > i + 1
            /\ RunEnd(text, i + 1, Alphabet \ {")"}) <= Len(text)
         THEN RemoveAnnotations(text, RunEnd(text, i + 1, Alphabet \ {")"}) + 1)
         ELSE <<text[i]>> \o RemoveAnnotations(text, i + 1)

\* (\d+)\s*[–\-]\s*(\d+) tried at i: the first number ends before d, the dash
\* is at s1, the second number is s2 .. e - 1; 0 when there is no match
RangeEndFromDash(text, s1, s2) ==
    IF s1 <= Len(text) /\ text[s1] \in Dashes /\ RunEnd(text, s2, Digits) > s2
    THEN RunEnd(text, s2, Digits)
    ELSE 0

RangeEndFromSpace(text, s1) ==
    RangeEndFromDash(text, s1, RunEnd(text, s1 + 1, SpaceChars))

RangeEnd(text, i) ==
    IF text[i] \in Digits
    THEN RangeEndFromSpace(text, RunEnd(text, RunEnd(text, i, Digits), SpaceChars))
    ELSE 0

\* mutant: the range replaced by its second number
RangeReplacementUpper(text, i, e) ==
    SubSeq(text, RunEnd(text, RunEnd(text, RunEnd(text, i, Digits), SpaceChars) + 1,
                        SpaceChars),
           e - 1)

\* r'\1'
RangeReplacement(text, i, e) == SubSeq(text, i, RunEnd(text, i, Digits) - 1)

\* re.sub(r'(\d+)\s*[–\-]\s*(\d+)', r'\1', bands_str)
RECURSIVE CollapseRanges(_, _)
CollapseRanges(text, i) ==
    IF i > Len(text) THEN <<>>
    ELSE IF RangeEnd(text, i) > 0
         THEN RangeReplacement(text, i, RangeEnd(text, i))
                  \o CollapseRanges(text, RangeEnd(text, i))
         ELSE <<text[i]>> \o CollapseRanges(text, i + 1)

\* float(num) of a string of digits
RECURSIVE FromDigits(_)
FromDigits(num) ==
    IF num = <<>> THEN 0
    ELSE 10 * FromDigits(SubSeq(num, 1, Len(num) - 1))
             + (CHOOSE v \in 0..9 : DigitChars[v + 1] = num[Len(num)])

\* [float(num) for num in re.findall(r'\d+', bands_str)]
RECURSIVE ExtractNumbers(_, _)
ExtractNumbers(text, i) ==
    IF i > Len(text) THEN <<>>
    ELSE IF text[i] \in Digits
         THEN <<FromDigits(SubSeq(text, i, RunEnd(text, i, Digits) - 1))>>
                  \o ExtractNumbers(text, RunEnd(text, i, Digits))
         ELSE ExtractNumbers(text, i + 1)

\* the body of the loop: the numbers of one bands_str
NumbersOf(bands_str) ==
    ExtractNumbers(CollapseRanges(RemoveAnnotations(bands_str, 1), 1), 1)

\* marker_bands[phase] = numbers for the matches in order: of two matches of
\* one phase the later one stays
LastMatchOf(matches, phase) ==
    CHOOSE k \in DOMAIN matches :
        /\ matches[k].phase = phase
        /\ \A m \in DOMAIN matches : matches[m].phase = phase => m <= k

MarkerBands(matches) ==
    [phase \in {matches[k].phase : k \in DOMAIN matches} |->
        NumbersOf(matches[LastMatchOf(matches, phase)].bands_str)]

parse_marker_bands(marker_string) == MarkerBands(FindAllPhases(marker_string, 1))

(***************************************************************************)
(* The parsing machine: one call of parse_marker_bands on a marker text    *)
(* 'DEA:' with a 'solid: [...]' entry of up to MaxItems items and, or not, *)
(* the entry 'liquid: [252, 374, 468–470]'.  An item is a number, a range  *)
(* low-high or a number with an annotation.                                *)
(***************************************************************************)
\* str(n) of a natural number
RECURSIVE ToDigits(_)
ToDigits(n) ==
    IF n < 10 THEN <<DigitChars[n + 1]>>
    ELSE ToDigits(n \div 10) \o <<DigitChars[(n % 10) + 1]>>

Item(low, high, dash, note) == [low |-> low, high |-> high, dash |-> dash, note |-> note]

Items ==
    {Item(low, 0, <<>>, note) :
        low \in Lows, note \in {<<>>, <<"(", "s", "h", ".", ")">>, <<"(", "x", "2", ")">>}}
    \cup {Item(low, low + 4, dash, <<>>) :
        low \in Lows, dash \in {<<"-">>, <<"EN">>, <<" ", "-", " ">>}}

ItemLists == UNION {[1..n -> Items] : n \in 1..MaxItems}

ItemText(item) ==
    ToDigits(item.low)
        \o (IF item.high > 0 THEN item.dash \o ToDigits(item.high) ELSE <<>>)
        \o (IF item.note # <<>> THEN <<" ">> \o item.note ELSE <<>>)

RECURSIVE ItemsText(_)
ItemsText(items) ==
    IF Len(items) = 1 THEN ItemText(items[1])
    ELSE ItemsText(SubSeq(items, 1, Len(items) - 1))
             \o <<",", " ">> \o ItemText(items[Len(items)])

EntryText(entry) ==
    <<" ", " ">> \o entry.phase \o <<":", " ", "[">> \o ItemsText(entry.items)
        \o <<"]", "NL">>

RECURSIVE EntriesText(_)
EntriesText(entries) ==
    IF entries = <<>> THEN <<>>
    ELSE EntryText(entries[1]) \o EntriesText(Tail(entries))

MarkerText(entries) == <<"D", "E", "A", ":", "NL">> \o EntriesText(entries)

Solid(items) == [phase |-> <<"s", "o", "l", "i", "d">>, items |-> items]

Liquid ==
    [phase |-> <<"l", "i", "q", "u", "i", "d">>,
     items |-> <<Item(252, 0, <<>>, <<>>), Item(374, 0, <<>>, <<>>),
                 Item(468, 470, <<"EN">>, <<>>)>>]

ParseMarkerBands ==
    /\ call = NoCall
    /\ \E items \in ItemLists :
       \E entries \in {<<Solid(items)>>, <<Solid(items), Liquid>>} :
           /\ call' = [op |-> "parse_marker_bands", entries |-> entries,
                       marker_string |-> MarkerText(entries)]
           /\ result' = parse_marker_bands(MarkerText(entries))
    /\ outcome' = "returned"
    /\ UNCHANGED spectra

NextParse == ParseMarkerBands

SpecParse == Init /\ [][NextParse]_vars

(***************************************************************************)
(* _detect_shoulders on its own: one call on a smoothed trace of up to     *)
(* MaxSpikes spikes; the main peaks are its local maxima of at least a     *)
(* main level, all of one width.                                           *)
(***************************************************************************)
SpikePlaces == {at \in SUBSET (1..NumPoints) : Cardinality(at) <= MaxSpikes}

SpikeTrace(at, h) == [i \in 1..NumPoints |-> IF i \in at THEN h[i] ELSE 0]

MainPeaksOf(x, level) == SelectSeq(LocalMaximaFrom(x, 2), LAMBDA p: x[p] >= level)

PropertiesOf(peaks, width) ==
    [prominences |-> [i \in 1..Len(peaks) |-> Frac(1, 1)],
     widths |-> [i \in 1..Len(peaks) |-> width]]

ShouldersCall(x, peaks, properties) ==
    /\ call' = [op |-> "_detect_shoulders", smoothed |-> x, peaks |-> peaks,
                properties |-> properties]
    /\ result' = _detect_shoulders(x, peaks, properties)

DetectShoulders ==
    /\ call = NoCall
    /\ \E at \in SpikePlaces, level \in MainLevels, width \in MainWidths :
           \E h \in [at -> SpikeHeights] :
               ShouldersCall(SpikeTrace(at, h),
                             MainPeaksOf(SpikeTrace(at, h), level),
                             PropertiesOf(MainPeaksOf(SpikeTrace(at, h), level), width))
    /\ outcome' = "returned"
    /\ UNCHANGED spectra

NextShoulders == DetectShoulders

SpecShoulders == Init /\ [][NextShoulders]_vars

(***************************************************************************)
(* match_peak on its own: one call on a peak list in any order, which may  *)
(* hold several peaks of one wavenumber; 'intensity' tells the peaks apart.*)
(***************************************************************************)
PeakListOf(wns) == [i \in 1..Len(wns) |-> [wavenumber |-> wns[i], intensity |-> i]]

PeakLists ==
    UNION {{PeakListOf(wns) : wns \in [1..n -> PeakWavenumbers]} : n \in 0..MaxPeaks}

MatchPeak ==
    /\ call = NoCall
    /\ \E target_wn \in Targets, peak_list \in PeakLists, tol \in Tolerances :
           /\ call' = [op |-> "match_peak", target_wn |-> target_wn,
                       peak_list |-> peak_list, tolerance |-> tol]
           /\ result' = match_peak(target_wn, peak_list, tol)
    /\ outcome' = "returned"
    /\ UNCHANGED spectra

NextMatch == MatchPeak

SpecMatch == Init /\ [][NextMatch]_vars

(***************************************************************************)
(* Vocabulary of the properties, stated on the inputs and not through the  *)
(* operators above.  S is the temperature-sorted sequence the call worked  *)
(* on, x = <<k, j>> is peak j of the prev (or curr) spectrum of the        *)
(* adjacent pair k = (S[k], S[k+1]).                                       *)
(***************************************************************************)
CompareReturned == call.op = "compare_spectra" /\ outcome = "returned"

Raised == outcome \notin {"none", "returned"}

Sorted == SortedByTemperature(spectra)

PeakCount(s) == Len(s.peaks)
PeakWn(s, j) == s.wavenumber[s.peaks[j]]
PeakRaw(s, j) == s.intensity[s.peaks[j]]
Largest(a) == CHOOSE x \in {a[i] : i \in DOMAIN a} : \A i \in DOMAIN a : a[i] <= x

\* the peaks of s within tol of wn, and the one a match is: the first of the
\* closest
Near(s, wn, tol) == {j \in 1..PeakCount(s) : Abs(PeakWn(s, j) - wn) <= tol}

Nearest(s, wn, tol) ==
    LET near == Near(s, wn, tol)
    IN  CHOOSE j \in near :
            \A i \in near :
                /\ Abs(PeakWn(s, j) - wn) <= Abs(PeakWn(s, i) - wn)
                /\ (i < j => Abs(PeakWn(s, i) - wn) > Abs(PeakWn(s, j) - wn))

PrevPeaks(S) ==
    UNION {{<<k, j>> : j \in 1..PeakCount(S[k])} : k \in 1..(Len(S) - 1)}
CurrPeaks(S) ==
    UNION {{<<k, j>> : j \in 1..PeakCount(S[k + 1])} : k \in 1..(Len(S) - 1)}

PrevWn(S, x) == PeakWn(S[x[1]], x[2])
CurrWn(S, x) == PeakWn(S[x[1] + 1], x[2])
FromTemp(S, x) == S[x[1]].temperature
ToTemp(S, x) == S[x[1] + 1].temperature

\* prev peaks that have a match, curr peaks that have none in prev
Matched(S, tol) == {x \in PrevPeaks(S) : Near(S[x[1] + 1], PrevWn(S, x), tol) # {}}
New(S, tol) == {x \in CurrPeaks(S) : Near(S[x[1]], CurrWn(S, x), tol) = {}}

\* the position in curr of the match of the prev peak x
MatchOf(S, tol, x) == Nearest(S[x[1] + 1], PrevWn(S, x), tol)
MatchWn(S, tol, x) == PeakWn(S[x[1] + 1], MatchOf(S, tol, x))
ShiftOf(S, tol, x) == MatchWn(S, tol, x) - PrevWn(S, x)

\* the records with keys `emitted` are, as a bag, the instances with `keys`
SameBag(emitted, keys) ==
    /\ \A i \in DOMAIN emitted : \E x \in DOMAIN keys : keys[x] = emitted[i]
    /\ \A x \in DOMAIN keys :
           Cardinality({i \in DOMAIN emitted : emitted[i] = keys[x]})
               = Cardinality({y \in DOMAIN keys : keys[y] = keys[x]})

RECURSIVE GCD(_, _)
GCD(a, b) == IF b = 0 THEN a ELSE GCD(b, a % b)

Sign(n) == IF n > 0 THEN 1 ELSE IF n < 0 THEN -1 ELSE 0

\* a fraction in lowest terms; d = 0 keeps only the sign
Lowest(f) ==
    IF f.d = 0 THEN [n |-> Sign(f.n), d |-> 0]
    ELSE LET g == GCD(Abs(f.n), f.d) IN [n |-> f.n \div g, d |-> f.d \div g]

(***************************************************************************)
(* C1  Appearing                                                           *)
(***************************************************************************)
AppearingKeys ==
    [i \in DOMAIN result.appearing |->
        <<result.appearing[i].wavenumber, result.appearing[i].from_temp,
          result.appearing[i].to_temp>>]

\* C1: in every adjacent pair (prev, curr) of the temperature-sorted
\* sequence, each curr peak with no prev peak within the tolerance
\* (inclusive) has exactly one Appearing record, carrying its wavenumber,
\* from_temp = prev's and to_temp = curr's temperature, and a curr peak that
\* has a prev peak within the tolerance has none.
C1_AppearingExactlyTheUnmatched ==
    CompareReturned =>
        LET S == Sorted
        IN  SameBag(AppearingKeys,
                    [x \in New(S, call.tolerance) |->
                        <<CurrWn(S, x), FromTemp(S, x), ToTemp(S, x)>>])

\* an appearing peak, and in the same result a curr peak that is matched
\* only because the tolerance is inclusive
C1_Witness ==
    /\ CompareReturned
    /\ New(Sorted, call.tolerance) # {}
    /\ \E x \in CurrPeaks(Sorted) \ New(Sorted, call.tolerance) :
           \A j \in 1..PeakCount(Sorted[x[1]]) :
               Abs(PeakWn(Sorted[x[1]], j) - CurrWn(Sorted, x)) >= call.tolerance

(***************************************************************************)
(* C2  Disappearing                                                        *)
(***************************************************************************)
DisappearingKeys ==
    [i \in DOMAIN result.disappearing |->
        <<result.disappearing[i].wavenumber, result.disappearing[i].from_temp,
          result.disappearing[i].to_temp>>]

\* C2: in every adjacent pair, each prev peak with no curr peak within the
\* tolerance (inclusive) has exactly one Disappearing record, carrying its
\* wavenumber, from_temp = prev's and to_temp = curr's temperature, and a
\* prev peak that has a curr peak within the tolerance has none.
C2_DisappearingExactlyTheUnmatched ==
    CompareReturned =>
        LET S == Sorted
        IN  SameBag(DisappearingKeys,
                    [x \in PrevPeaks(S) \ Matched(S, call.tolerance) |->
                        <<PrevWn(S, x), FromTemp(S, x), ToTemp(S, x)>>])

\* a disappearing peak between two different temperatures, and a prev peak
\* matched at exactly the tolerance
C2_Witness ==
    /\ CompareReturned
    /\ \E x \in PrevPeaks(Sorted) \ Matched(Sorted, call.tolerance) :
           FromTemp(Sorted, x) # ToTemp(Sorted, x)
    /\ \E x \in Matched(Sorted, call.tolerance) :
           Abs(ShiftOf(Sorted, call.tolerance, x)) = call.tolerance

(***************************************************************************)
(* C3  Growing, Diminishing, Stable                                        *)
(***************************************************************************)
\* the relative intensities pn/pd of the prev peak x and mn/md of its match
Rel(S, tol, x) ==
    [pn |-> PeakRaw(S[x[1]], x[2]),
     pd |-> Largest(S[x[1]].intensity),
     mn |-> PeakRaw(S[x[1] + 1], MatchOf(S, tol, x)),
     md |-> Largest(S[x[1] + 1].intensity)]

\* change > 0.30, that is (mn/md) / (pn/pd) > 1.3; a zero pn/pd with a
\* positive mn/md is float64's +inf
Grows(r) ==
    /\ r.pd > 0 /\ r.md > 0
    /\ IF r.pn = 0 THEN r.mn > 0 ELSE 10 * r.mn * r.pd > 13 * r.pn * r.md

\* change < -0.30, that is (mn/md) / (pn/pd) < 0.7
Diminishes(r) ==
    /\ r.pd > 0 /\ r.md > 0 /\ r.pn > 0
    /\ 10 * r.mn * r.pd < 7 * r.pn * r.md

\* change * 100
ChangePercent(r) ==
    Lowest([n |-> 100 * (r.mn * r.pd - r.pn * r.md), d |-> r.pn * r.md])

IntensityKeys(records) ==
    [i \in DOMAIN records |->
        <<records[i].wavenumber, records[i].from_temp, records[i].to_temp,
          Lowest(records[i].change_percent)>>]

ShiftingKeys ==
    [i \in DOMAIN result.shifting |->
        <<result.shifting[i].from_wavenumber, result.shifting[i].to_wavenumber,
          result.shifting[i].shift, result.shifting[i].from_temp,
          result.shifting[i].to_temp>>]

\* C4: a prev peak p matched to m has a Shifting record {from_wavenumber =
\* p's, to_wavenumber = m's, shift = m's - p's wavenumber} iff |shift| > 2,
\* whatever its intensity change: the records are those of all matched
\* pairs of that shift, growing, diminishing or neither.
C4_ShiftingByThreshold ==
    CompareReturned =>
        LET S == Sorted
            tol == call.tolerance
        IN  SameBag(ShiftingKeys,
                    [x \in {y \in Matched(S, tol) : Abs(ShiftOf(S, tol, y)) > 2} |->
                        <<PrevWn(S, x), MatchWn(S, tol, x), ShiftOf(S, tol, x),
                          FromTemp(S, x), ToTemp(S, x)>>])

\* one matched pair with both a Shifting and a Growing record, one shifting
\* with a change inside the threshold, and one moved by exactly 2
C4_Witness ==
    /\ CompareReturned
    /\ LET S == Sorted
           tol == call.tolerance
           rel == [x \in Matched(S, tol) |-> Rel(S, tol, x)]
           Shifts(x) == Abs(ShiftOf(S, tol, x)) > 2
       IN  /\ \E x \in DOMAIN rel :
                  /\ Shifts(x) /\ Grows(rel[x])
                  /\ \E i \in DOMAIN result.shifting, j \in DOMAIN result.growing :
                         /\ result.shifting[i].from_wavenumber = PrevWn(S, x)
                         /\ result.growing[j].wavenumber = PrevWn(S, x)
                         /\ result.shifting[i].from_temp = FromTemp(S, x)
                         /\ result.growing[j].from_temp = FromTemp(S, x)
           /\ \E x \in DOMAIN rel : Shifts(x) /\ ~Grows(rel[x]) /\ ~Diminishes(rel[x])
           /\ \E x \in DOMAIN rel : Abs(ShiftOf(S, tol, x)) = 2

(***************************************************************************)
(* C5  Adjacent pairs, in order, nothing merged                            *)
(***************************************************************************)
\* the records of the adjacent pairs 1..k of S, in pair order
RECURSIVE AdjacentRecords(_, _, _)
AdjacentRecords(S, k, tol) ==
    IF k = 0 THEN EmptyChanges
    ELSE Extend(AdjacentRecords(S, k - 1, tol), ComparePair(S[k], S[k + 1], tol))

\* C5: for N >= 2 spectra every category's list is the concatenation, in
\* ascending pair order, of the records of the N-1 adjacent pairs of the
\* temperature-ascending sequence, and of no other pair; nothing is merged.
C5_AdjacentPairsInOrder ==
    (CompareReturned /\ Len(spectra) >= 2) =>
        LET S == Sorted
        IN  result = AdjacentRecords(S, Len(S) - 1, call.tolerance)

\* three spectra given out of temperature order, with a band that appears
\* in the first adjacent pair and disappears again in the second, and is in
\* both the coldest and the hottest spectrum's neighbourhood
C5_Witness ==
    /\ CompareReturned
    /\ Len(spectra) = 3
    /\ spectra # Sorted
    /\ Sorted[1].temperature < Sorted[3].temperature
    /\ \E i \in DOMAIN result.appearing, j \in DOMAIN result.disappearing :
           /\ result.appearing[i].wavenumber = result.disappearing[j].wavenumber
           /\ result.appearing[i].to_temp = Sorted[2].temperature
           /\ result.disappearing[j].from_temp = Sorted[2].temperature
           /\ result.appearing[i].from_temp # result.disappearing[j].to_temp

(***************************************************************************)
(* C6  match_peak                                                          *)
(***************************************************************************)
CallDistance(i) == Abs(call.peak_list[i].wavenumber - call.target_wn)
CallWithin == {i \in DOMAIN call.peak_list : CallDistance(i) <= call.tolerance}

\* C6: match_peak returns none iff no peak of the list is within the
\* tolerance (inclusive) of the target; otherwise it returns the peak of the
\* list that is closest to the target among those within the tolerance, the
\* first in list order of those closest.
C6_MatchIsFirstClosest ==
    call.op = "match_peak" =>
        /\ result = <<>> <=> CallWithin = {}
        /\ CallWithin # {} =>
               \E i \in CallWithin :
                   /\ result = <<call.peak_list[i]>>
                   /\ \A j \in CallWithin :
                          /\ CallDistance(i) <= CallDistance(j)
                          /\ (j < i => CallDistance(j) > CallDistance(i))

\* two peaks on either side of the target at the same, smallest distance,
\* the higher wavenumber listed first and returned, and a third peak
\* outside the tolerance
C6_Witness ==
    /\ call.op = "match_peak"
    /\ \E i, j \in CallWithin :
           /\ i < j
           /\ call.peak_list[i].wavenumber > call.peak_list[j].wavenumber
           /\ CallDistance(i) = CallDistance(j)
           /\ \A k \in CallWithin : CallDistance(i) <= CallDistance(k)
           /\ result = <<call.peak_list[i]>>
    /\ \E k \in DOMAIN call.peak_list : k \notin CallWithin

(***************************************************************************)
(* C7  Order of the input collection                                       *)
(***************************************************************************)
Reorderings(n) == {f \in [1..n -> 1..n] : \A i, j \in 1..n : f[i] = f[j] => i = j}

\* C7: compare_spectra returns the same ChangeSet, the same records in the
\* same order in every category, for every permutation of its input.
C7_SameForEveryPermutation ==
    CompareReturned =>
        \A f \in Reorderings(Len(spectra)) :
            compare_spectra([i \in 1..Len(spectra) |-> spectra[f[i]]],
                            call.tolerance).changes = result

(***************************************************************************)
(* C8  Positions returned by detect_peaks                                  *)
(***************************************************************************)
DetectReturned == call.op = "detect_peaks" /\ outcome = "returned"

\* the main peaks find_peaks gave the call, before any shoulder was merged
MainPeaks ==
    find_peaks(gaussian_filter1d(spectra[1].intensity),
               KernelSum * NpMax(spectra[1].intensity),
               call.params.prominence, call.params.width, call.params.height,
               call.params.distance).peaks

\* C8: the positions detect_peaks returns are the wavenumbers at pairwise
\* distinct sample indices of the spectrum and are strictly ascending,
\* with shoulder detection on or off.
C8_PositionsDistinctAscending ==
    DetectReturned =>
        LET s == spectra[1]
            positions == result.peak_wavenumbers
        IN  /\ Len(positions) = Len(s.peaks)
            /\ \A i \in DOMAIN positions :
                   /\ s.peaks[i] \in DOMAIN s.wavenumber
                   /\ positions[i] = s.wavenumber[s.peaks[i]]
            /\ \A i, j \in DOMAIN positions :
                   i < j => (s.peaks[i] # s.peaks[j] /\ positions[i] < positions[j])

\* a shoulder was merged in front of a main peak: the first returned
\* position is a shoulder and main peaks follow it
C8_Witness ==
    /\ DetectReturned
    /\ call.params.detect_shoulders
    /\ Len(spectra[1].peaks) > Len(MainPeaks)
    /\ Len(MainPeaks) > 0
    /\ ~InSeq(spectra[1].peaks[1], MainPeaks)

(***************************************************************************)
(* C9  A spectrum that is zero at every sample                             *)
(***************************************************************************)
AllZero(intensity) == \A i \in DOMAIN intensity : intensity[i] = 0

\* C9: detect_peaks on a spectrum whose intensity is zero at every sample
\* raises an error and never returns a peak list.
C9_FlatZeroRaises ==
    (call.op = "detect_peaks" /\ AllZero(spectra[1].intensity)) => Raised

(***************************************************************************)
(* C10  Fewer than two spectra                                             *)
(***************************************************************************)
\* C10: compare_spectra called with fewer than 2 spectra fails with an error
\* and returns no ChangeSet.
C10_FewerThanTwoFails ==
    (call.op = "compare_spectra" /\ Len(spectra) < 2) => Raised

(***************************************************************************)
(* C11  A matched prev peak of relative intensity 0                        *)
(***************************************************************************)
\* C11: when a prev peak whose relative_intensity is 0 is matched to a curr
\* peak, compare_spectra fails with an error and returns no ChangeSet.
C11_ZeroPrevIntensityRaises ==
    (/\ call.op = "compare_spectra"
     /\ \E x \in Matched(Sorted, call.tolerance) :
            Rel(Sorted, call.tolerance, x).pn = 0)
        => Raised

(***************************************************************************)
(* C12  detect_peaks run twice in a row                                    *)
(***************************************************************************)
\* C12: a detect_peaks call that repeats the call before it with the same
\* parameters leaves the spectrum as the first call left it (peaks,
\* is_shoulder, peak properties, hence get_peak_list) and returns the same.
C12_RepeatedDetectionIsIdempotent ==
    [][(call'.op = "detect_peaks" /\ call'.again) =>
           /\ spectra' = spectra
           /\ outcome' = outcome
           /\ result' = result
           /\ get_peak_list(spectra'[1]) = get_peak_list(spectra[1])]_vars

\* a repeated call on a spectrum in which a shoulder was merged
C12_Witness ==
    /\ call.op = "detect_peaks"
    /\ call.again
    /\ outcome = "returned"
    /\ Len(spectra[1].peaks) > Len(spectra[1].peak_properties.widths)

(***************************************************************************)
(* C13  Parameters out of range                                            *)
(***************************************************************************)
InvalidParameters(params) ==
    \/ params.prominence.n < 0
    \/ params.height.n < 0
    \/ params.distance < 0
    \/ params.width < 1

\* C13: detect_peaks called with a negative prominence, height or distance
\* or with a width below 1 raises an error and produces no peak list.
C13_InvalidParametersRaise ==
    (call.op = "detect_peaks" /\ InvalidParameters(call.params)) => Raised

(***************************************************************************)
(* C14  parse_marker_bands                                                 *)
(***************************************************************************)
\* C14: parse_marker_bands maps every 'phase: [...]' entry of the text to
\* the list, in written order, of the number of each plain item and the
\* lower bound of each range ('a-b' or 'a–b'); an annotation in
\* parentheses adds nothing.
C14_EntriesGiveLowerBounds ==
    call.op = "parse_marker_bands" =>
        /\ DOMAIN result = {call.entries[k].phase : k \in DOMAIN call.entries}
        /\ \A k \in DOMAIN call.entries :
               result[call.entries[k].phase]
                   = [i \in 1..Len(call.entries[k].items) |-> call.entries[k].items[i].low]

\* two entries; the first one holds a range written with a hyphen, one with
\* an en dash or spaces around the dash, and an annotation with a digit
C14_Witness ==
    /\ call.op = "parse_marker_bands"
    /\ Len(call.entries) = 2
    /\ \E i, j, k \in DOMAIN call.entries[1].items :
           /\ call.entries[1].items[i].dash = <<"-">>
           /\ call.entries[1].items[j].dash \in {<<"EN">>, <<" ", "-", " ">>}
           /\ call.entries[1].items[k].note = <<"(", "x", "2", ")">>

(***************************************************************************)
(* C15  The is_shoulder flags of the merged list                           *)
(***************************************************************************)
\* what the primary search and _detect_shoulders gave the call
MainFound ==
    find_peaks(gaussian_filter1d(spectra[1].intensity),
               KernelSum * NpMax(spectra[1].intensity),
               call.params.prominence, call.params.width, call.params.height,
               call.params.distance)

FoundShoulders ==
    _detect_shoulders(gaussian_filter1d(spectra[1].intensity),
                      MainFound.peaks, MainFound.properties)

\* C15: after detect_peaks with shoulder detection on, is_shoulder[i] is
\* true iff peaks[i] is one of the indices _detect_shoulders returned, and
\* false iff it is one of the main peaks of the primary search.
C15_FlagsTellShoulders ==
    (DetectReturned /\ call.params.detect_shoulders) =>
        /\ Len(spectra[1].is_shoulder) = Len(spectra[1].peaks)
        /\ \A i \in DOMAIN spectra[1].peaks :
               /\ spectra[1].is_shoulder[i] <=> InSeq(spectra[1].peaks[i], FoundShoulders)
               /\ ~spectra[1].is_shoulder[i] <=> InSeq(spectra[1].peaks[i], MainFound.peaks)

(***************************************************************************)
(* C16  The shoulder criterion                                             *)
(***************************************************************************)
\* c is greater than the samples one and two places to either side, the
\* places beyond an end taken as the end
Order2Maximum(x, c) ==
    \A d \in {1, 2} :
        /\ x[c] > x[IF c + d > Len(x) THEN Len(x) ELSE c + d]
        /\ x[c] > x[IF c - d < 1 THEN 1 ELSE c - d]

\* c lies in the search window of the k-th main peak and its height is
\* strictly between 20% and 30% of that peak's
QualifiesAgainst(x, peaks, widths, c, k) ==
    /\ c # peaks[k]
    /\ Abs(c - peaks[k]) < SearchRange(widths[k])
    /\ 10 * x[c] > 2 * x[peaks[k]]
    /\ 10 * x[c] < 3 * x[peaks[k]]

MainPlace(idx) ==
    IF InSeq(idx, MainFound.peaks)
    THEN CHOOSE k \in DOMAIN MainFound.peaks : MainFound.peaks[k] = idx
    ELSE 0

\* C17: in the list of get_peak_list, prominence and width are present
\* exactly on the entries of main peaks, absent on the shoulders, and a
\* main peak's entry carries the prominence and width the primary search
\* computed for its own sample index.
C17_PropertiesOfOwnMainPeak ==
    DetectReturned =>
        \A i \in DOMAIN get_peak_list(spectra[1]) :
            IF MainPlace(spectra[1].peaks[i]) = 0
            THEN /\ get_peak_list(spectra[1])[i].prominence = <<>>
                 /\ get_peak_list(spectra[1])[i].width = <<>>
            ELSE /\ get_peak_list(spectra[1])[i].prominence
                        = <<MainFound.properties.prominences[MainPlace(spectra[1].peaks[i])]>>
                 /\ get_peak_list(spectra[1])[i].width
                        = <<MainFound.properties.widths[MainPlace(spectra[1].peaks[i])]>>

(***************************************************************************)
(* C18  The stored peaks                                                   *)
(***************************************************************************)
\* what get_peak_list or compare_spectra does to the spectrum s, t being
\* the spectrum after the call: nothing when peaks are stored, a detection
\* with the default parameters when none are
KeptOrDetected(s, t) ==
    IF s.peaks_none
    THEN t = detect_peaks(s, DefaultParams).spectrum
    ELSE t = s

\* the peak list `list` reports the peaks stored on s, in their order
ReportsStored(list, s) ==
    /\ Len(list) = Len(s.peaks)
    /\ \A i \in DOMAIN list :
           /\ list[i].wavenumber = s.wavenumber[s.peaks[i]]
           /\ list[i].intensity = s.intensity[s.peaks[i]]
           /\ list[i].is_shoulder = s.is_shoulder[i]

\* the spectrum as constructed, nothing stored on it
Fresh(s) == RamanSpectrum(s.wavenumber, s.intensity, s.temperature)

OnePair(f, t) ==
    Cardinality({k \in 1..(Len(Sorted) - 1) :
                    Sorted[k].temperature = f /\ Sorted[k + 1].temperature = t}) = 1

\* C19: every Shifting record has 2 < |shift| <= tolerance, its shift being
\* to_wavenumber - from_wavenumber; a call with a tolerance of at most 2
\* emits none; and the Appearing peaks of a pair are never the
\* to_wavenumber of a Shifting record of the same pair.
C19_ShiftBetweenThresholdAndTolerance ==
    CompareReturned =>
        /\ \A i \in DOMAIN result.shifting :
               /\ result.shifting[i].shift
                      = result.shifting[i].to_wavenumber - result.shifting[i].from_wavenumber
               /\ Abs(result.shifting[i].shift) > 2
               /\ Abs(result.shifting[i].shift) <= call.tolerance
        /\ call.tolerance <= 2 => result.shifting = <<>>
        /\ \A i \in DOMAIN result.appearing, j \in DOMAIN result.shifting :
               (/\ result.appearing[i].from_temp = result.shifting[j].from_temp
                /\ result.appearing[i].to_temp = result.shifting[j].to_temp
                /\ OnePair(result.shifting[j].from_temp, result.shifting[j].to_temp))
                   => result.appearing[i].wavenumber # result.shifting[j].to_wavenumber

\* a Shifting record of a shift of exactly the tolerance, and a pair with
\* both a Shifting and an Appearing record
C19_Witness ==
    /\ CompareReturned
    /\ \E i \in DOMAIN result.shifting :
           Abs(result.shifting[i].shift) = call.tolerance
    /\ \E i \in DOMAIN result.appearing, j \in DOMAIN result.shifting :
           /\ result.appearing[i].from_temp = result.shifting[j].from_temp
           /\ result.appearing[i].to_temp = result.shifting[j].to_temp
           /\ OnePair(result.shifting[j].from_temp, result.shifting[j].to_temp)

====
